---- MODULE Spec2Model ----
(***************************************************************************)
(* A model of syntree_layout: the three-pass embedding of                  *)
(* internal/embedder.rs (Embedder::embed) and the builder of layouter.rs   *)
(* (Layouter).                                                             *)
(*                                                                         *)
(* Option<T> is modelled as a sequence of length 0 (None) or 1 (Some(x)).  *)
(* usize arithmetic is modelled on the integers; a subtraction that would  *)
(* go below zero is reported as the panic of a build with overflow checks. *)
(***************************************************************************)
EXTENDS Integers, Sequences, FiniteSets, TLC

\* ---------------------------------------------------------------- bounds
MaxNodes == 5          \* nodes of the trees given to Embedder::embed
MaxValue == 1          \* their node values are 0..MaxValue
MaxScenarioNodes == 3  \* nodes of the trees of the small scenarios
MaxScenarioValue == 3  \* their node values are 0..MaxScenarioValue
MaxLayouterNodes == 2  \* nodes of the trees held by a Layouter
MaxWrites == 2         \* calls of Layouter::write that are followed

None == <<>>
Some(x) == <<x>>

\* ------------------------------------------------- the syntree::Tree input
\* A tree is [len, parent, value]: nodes carry the ids 1..len in the order
\* the syntree Builder opened them (pre-order), parent[i] = 0 for a
\* top-level node.
RECURSIVE IsAncestorOrSelf(_, _, _)
IsAncestorOrSelf(parent, a, i) ==
    IF a = i THEN TRUE
    ELSE IF parent[i] = 0 THEN FALSE
    ELSE IsAncestorOrSelf(parent, a, parent[i])

WellFormed(n, parent) ==
    \A i \in 1..n :
        /\ parent[i] < i
        /\ (i > 1 /\ parent[i] # 0) => IsAncestorOrSelf(parent, parent[i], i - 1)

IsTree(t, maxLen, maxValue) ==
    \E n \in 0..maxLen :
        \E p \in { q \in [1..n -> 0..n] : WellFormed(n, q) } :
            \E v \in [1..n -> 0..maxValue] :
                t = [len |-> n, parent |-> p, value |-> v]

Ids(t) == [i \in 1..t.len |-> i]

\* Tree::children(): the top-level nodes, in order
tree_children(t) == SelectSeq(Ids(t), LAMBDA i : t.parent[i] = 0)

\* Node::children(): the direct children of a node, in order
node_children(t, id) == SelectSeq(Ids(t), LAMBDA i : t.parent[i] = id)

\* Node::parent()
node_parent(t, id) == IF t.parent[id] = 0 THEN None ELSE Some(t.parent[id])

\* links.first / links.next of a node
links_first(t, id) ==
    LET cs == node_children(t, id) IN IF cs = <<>> THEN None ELSE Some(cs[1])

links_next(t, id) ==
    LET sibs == SelectSeq(Ids(t), LAMBDA i : t.parent[i] = t.parent[id] /\ i > id)
    IN IF sibs = <<>> THEN None ELSE Some(sibs[1])

\* Tree::walk().with_depths(): pre-order, depth-first, <<depth, node>>
RECURSIVE WalkFrom(_, _, _)
WalkFrom(t, nodes, depth) ==
    IF nodes = <<>> THEN <<>>
    ELSE <<<<depth, Head(nodes)>>>>
            \o WalkFrom(t, node_children(t, Head(nodes)), depth + 1)
            \o WalkFrom(t, Tail(nodes), depth)

walk(t) == WalkFrom(t, tree_children(t), 0)

\* Tree::walk_events(): syntree emits Event::Next for the first node and
\* for a next sibling, Event::Down for a first child and Event::Up for a
\* parent when its last child has been left.  A node without children gets
\* no Event::Up.
walk_events_step(t, id, event, depth) ==
    LET up == IF depth = 0 \/ node_parent(t, id) = None THEN None
              ELSE Some(<<"Up", node_parent(t, id)[1], depth - 1>>)
    IN IF event = "Up"
       THEN IF links_next(t, id) # None
            THEN Some(<<"Next", links_next(t, id)[1], depth>>)
            ELSE up
       ELSE IF links_first(t, id) # None
            THEN Some(<<"Down", links_first(t, id)[1], depth + 1>>)
            ELSE IF links_next(t, id) # None
                 THEN Some(<<"Next", links_next(t, id)[1], depth>>)
                 ELSE up

RECURSIVE WalkEventsFrom(_, _, _, _)
WalkEventsFrom(t, id, event, depth) ==
    LET nxt == walk_events_step(t, id, event, depth)
    IN <<<<event, id>>>> \o
       (IF nxt = None THEN <<>>
        ELSE WalkEventsFrom(t, nxt[1][2], nxt[1][1], nxt[1][3]))

walk_events(t) ==
    IF tree_children(t) = <<>> THEN <<>>
    ELSE WalkEventsFrom(t, tree_children(t)[1], "Next", 0)

\* ------------------------------------------- the caller-supplied functions
\* StringifyFunction: value -> text
TextTable == <<"A", "CC", "", "B", "DDD", "EEEE", "FFFFF">>
stringify(v) == TextTable[v + 1]

\* EmphasizeFunction: value -> bool
emphasize(v) == v % 2 = 1

\* ------------------------------------------------------------ the state
VARIABLES
    tree,          \* the &Tree handed to embed / held by the Layouter
    pc,            \* position inside Embedder::embed
    items,         \* EmbeddingHelperData: the working table, in ord order
    pos,           \* index of the next walk item / event / layer
    result,        \* what Embedder::embed returned
    file_name,     \* Layouter.file_name : Option<&Path>
    drawer,        \* Layouter.drawer : Option<&dyn Drawer>
    embedding,     \* Layouter.embedding
    alive,         \* the Layouter value has not been consumed by a failed call
    write_count,   \* number of Layouter::write calls so far
    draw_count,    \* number of Drawer::draw invocations so far
    last_draw,     \* arguments of the last Drawer::draw invocation
    write_result   \* what the last Layouter::write returned

vars == <<tree, pc, items, pos, result, file_name, drawer, embedding, alive,
          write_count, draw_count, last_draw, write_result>>

embedderVars == <<pc, items, pos, result>>
layouterVars == <<file_name, drawer, embedding, alive, write_count,
                  draw_count, last_draw, write_result>>

\* Result<Embedding>
NoResult == [kind |-> "none", embedding |-> <<>>, err |-> ""]
Ok(e) == [kind |-> "Ok", embedding |-> e, err |-> ""]
Err(d) == [kind |-> "Err", embedding |-> <<>>, err |-> d]
Panic(d) == [kind |-> "panic", embedding |-> <<>>, err |-> d]

\* ------------------------------------------------- EmbeddingHelperData
get_by_ord(its, ord) ==
    IF ord \in 0..(Len(its) - 1) THEN Some(its[ord + 1]) ELSE None

get_by_node_id(its, id) ==
    LET found == SelectSeq(its, LAMBDA e : e.node_id = id)
    IN IF found = <<>> THEN None ELSE Some(found[1])

insert(its, ord, item) == Append(its, item)

\* ------------------------------------------------------------- pass 1
create_from_node(ord, depth, node, its, t) ==
    LET text == stringify(t.value[node])
        x_extent == Len(text) + 1
        p == node_parent(t, node)
    IN [ y_order |-> depth,
         x_center |-> 0,
         x_extent |-> x_extent,
         x_extent_of_children |-> x_extent,
         x_extent_children |-> x_extent,
         text |-> text,
         is_emphasized |-> emphasize(t.value[node]),
         parent |-> IF p = None \/ get_by_node_id(its, p[1]) = None THEN None
                    ELSE Some(get_by_node_id(its, p[1])[1].ord),
         ord |-> ord,
         node_id |-> node ]

\* faulty variants of the root check: a bound off by one, and a check that
\* also rejects the tree without nodes
multiple_roots_more_than_two(t) == Len(tree_children(t)) > 2

multiple_roots_not_one(t) == Len(tree_children(t)) # 1

\* the root check at the head of create_initial_embedding_data
multiple_roots(t) == Len(tree_children(t)) > 1

\* the closure of for_each in create_initial_embedding_data, for the k-th
\* item of the walk
visit_node(t, its, k) ==
    LET w == walk(t)[k]
    IN insert(its, k - 1, create_from_node(k - 1, w[1], w[2], its, t))

\* ------------------------------------------------------------- pass 2
RECURSIVE SumExtents(_, _)
SumExtents(its, children) ==
    IF children = <<>> THEN 0
    ELSE LET c == get_by_node_id(its, children[Len(children)])
             acc == SumExtents(its, SubSeq(children, 1, Len(children) - 1))
         IN IF c # None THEN acc + c[1].x_extent_children ELSE acc

\* faulty variant of the closure: the widths are set when a node is
\* entered instead of when it is left
on_event_on_enter(t, its, ev) ==
    IF ev[1] \in {"Next", "Down"}
    THEN LET x_extent_of_children == SumExtents(its, node_children(t, ev[2]))
         IN [ k \in 1..Len(its) |->
                IF its[k].node_id = ev[2]
                THEN [ its[k] EXCEPT
                         !.x_extent_of_children = x_extent_of_children,
                         !.x_extent_children =
                             IF its[k].x_extent >= x_extent_of_children
                             THEN its[k].x_extent ELSE x_extent_of_children ]
                ELSE its[k] ]
    ELSE its

\* the closure of for_each in apply_children_x_extents, for one event
on_event(t, its, ev) ==
    IF ev[1] = "Up"
    THEN LET x_extent_of_children == SumExtents(its, node_children(t, ev[2]))
         IN [ k \in 1..Len(its) |->
                IF its[k].node_id = ev[2]
                THEN [ its[k] EXCEPT
                         !.x_extent_of_children = x_extent_of_children,
                         !.x_extent_children =
                             IF its[k].x_extent >= x_extent_of_children
                             THEN its[k].x_extent ELSE x_extent_of_children ]
                ELSE its[k] ]
    ELSE its

\* ------------------------------------------------------------- pass 3
node_ids_in_layer(layer, its) ==
    SelectSeq([k \in 1..Len(its) |-> k - 1],
              LAMBDA ord : its[ord + 1].y_order = layer)

parents_in_layer(nids, its) ==
    [k \in 1..Len(nids) |-> get_by_ord(its, nids[k])[1].parent]

nodes_in_layer_per_parent(nids, its, p) ==
    SelectSeq(nids, LAMBDA ord : /\ get_by_ord(its, ord) # None
                                 /\ get_by_ord(its, ord)[1].parent = p)

\* faulty variant of the cursor start: the children start at the parent's
\* center instead of half their span to the left of it
moving_x_center_start_at_parent_center(layer, nids, its, p) ==
    IF p # None
    THEN IF get_by_ord(its, p[1]) # None
         THEN [kind |-> "Ok", value |-> get_by_ord(its, p[1])[1].x_center,
               err |-> ""]
         ELSE [kind |-> "Err", value |-> 0, err |-> "Some item expected here!"]
    ELSE IF layer # 0 \/ Len(nids) # 1
         THEN [kind |-> "panic", value |-> 0, err |-> "debug_assert_eq"]
         ELSE [kind |-> "Ok", value |-> 0, err |-> ""]

\* the initial value of moving_x_center for the group of parent p:
\* [kind, value, err]
moving_x_center_start(layer, nids, its, p) ==
    IF p # None
    THEN IF get_by_ord(its, p[1]) # None
         THEN LET placed_parent_item == get_by_ord(its, p[1])[1]
                  half == placed_parent_item.x_extent_of_children \div 2
              IN IF placed_parent_item.x_center < half
                 THEN [kind |-> "panic", value |-> 0,
                       err |-> "attempt to subtract with overflow"]
                 ELSE [kind |-> "Ok",
                       value |-> placed_parent_item.x_center - half,
                       err |-> ""]
         ELSE [kind |-> "Err", value |-> 0, err |-> "Some item expected here!"]
    ELSE IF layer # 0 \/ Len(nids) # 1
         THEN [kind |-> "panic", value |-> 0, err |-> "debug_assert_eq"]
         ELSE [kind |-> "Ok", value |-> 0, err |-> ""]

\* faulty variants of the placement: half the width rounded up, the whole
\* width added, nothing added
placed_x_center_round_up(moving_x_center, placed_item) ==
    moving_x_center + (placed_item.x_extent_children + 1) \div 2

placed_x_center_no_halving(moving_x_center, placed_item) ==
    moving_x_center + placed_item.x_extent_children

placed_x_center_at_cursor(moving_x_center, placed_item) ==
    moving_x_center

\* x_center of an item placed at the cursor moving_x_center
placed_x_center(moving_x_center, placed_item) ==
    moving_x_center + placed_item.x_extent_children \div 2

\* faulty variant of the cursor advance: by the width of the item's own
\* label instead of the width of its subtree
advance_x_center_own_label(moving_x_center, placed_item) ==
    moving_x_center + placed_item.x_extent

\* the cursor after an item has been placed
advance_x_center(moving_x_center, placed_item) ==
    moving_x_center + placed_item.x_extent_children

\* for ord in nodes_in_layer_per_parent { ... }
RECURSIVE place_nodes(_, _, _)
place_nodes(its, ords, moving_x_center) ==
    IF ords = <<>> THEN its
    ELSE IF get_by_ord(its, Head(ords)) = None
         THEN place_nodes(its, Tail(ords), moving_x_center)
         ELSE LET placed_item == its[Head(ords) + 1]
              IN place_nodes(
                   [its EXCEPT ![Head(ords) + 1].x_center =
                        placed_x_center(moving_x_center, placed_item)],
                   Tail(ords),
                   advance_x_center(moving_x_center, placed_item))

\* for p in parents_in_layer { ... }: [kind, items, err]
RECURSIVE place_groups(_, _, _, _)
place_groups(layer, nids, its, ps) ==
    IF ps = <<>> THEN [kind |-> "Ok", items |-> its, err |-> ""]
    ELSE LET start == moving_x_center_start(layer, nids, its, Head(ps))
         IN IF start.kind # "Ok"
            THEN [kind |-> start.kind, items |-> its, err |-> start.err]
            ELSE place_groups(layer, nids,
                     place_nodes(its,
                                 nodes_in_layer_per_parent(nids, its, Head(ps)),
                                 start.value),
                     Tail(ps))

x_center_layer(layer, its) ==
    LET nids == node_ids_in_layer(layer, its)
    IN IF \E k \in 1..Len(nids) : get_by_ord(its, nids[k]) = None
       THEN [kind |-> "Err", items |-> its, err |-> "Expecting existing node"]
       ELSE place_groups(layer, nids, its, parents_in_layer(nids, its))

\* height in apply_x_center: the largest y_order, 0 for an empty table
height(its) ==
    IF its = <<>> THEN 0
    ELSE CHOOSE h \in { its[k].y_order : k \in 1..Len(its) } :
            \A k \in 1..Len(its) : its[k].y_order <= h

\* ----------------------------------------------------- result transfer
\* From<InternalNode> for EmbeddedNode
into_embedded_node(e) ==
    [ y_order |-> e.y_order, x_center |-> e.x_center, text |-> e.text,
      is_emphasized |-> e.is_emphasized, node_id |-> e.node_id ]

transfer_result(its) == [k \in 1..Len(its) |-> into_embedded_node(its[k])]

\* ------------------------------------------- Embedder::embed, as a whole
RECURSIVE pass1(_, _, _)
pass1(t, its, k) ==
    IF k > Len(walk(t)) THEN its ELSE pass1(t, visit_node(t, its, k), k + 1)

RECURSIVE pass2(_, _, _)
pass2(t, its, k) ==
    IF k > Len(walk_events(t)) THEN its
    ELSE pass2(t, on_event(t, its, walk_events(t)[k]), k + 1)

\* for l in 0..height + 1 { x_center_layer(l, items)? }
RECURSIVE pass3(_, _, _)
pass3(its, l, h) ==
    IF l > h THEN [kind |-> "Ok", items |-> its, err |-> ""]
    ELSE LET r == x_center_layer(l, its)
         IN IF r.kind # "Ok" THEN r ELSE pass3(r.items, l + 1, h)

Embedder_embed(t) ==
    IF multiple_roots(t) THEN Err("Currently we support only one root")
    ELSE LET its == pass2(t, pass1(t, <<>>, 1), 1)
             r == pass3(its, 0, height(its))
         IN IF r.kind = "Ok" THEN Ok(transfer_result(r.items))
            ELSE IF r.kind = "Err" THEN Err(r.err) ELSE Panic(r.err)

\* ------------------------------------- Embedder::embed, step by step
FreshLayouter ==
    /\ file_name = None
    /\ drawer = None
    /\ embedding = <<>>
    /\ alive = TRUE
    /\ write_count = 0
    /\ draw_count = 0
    /\ last_draw = None
    /\ write_result = "none"

Init ==
    /\ IsTree(tree, MaxNodes, MaxValue)
    /\ pc = "embed"
    /\ items = <<>>
    /\ pos = 0
    /\ result = NoResult
    /\ FreshLayouter

AfterPass1(t) ==
    IF walk_events(t) = <<>> THEN "apply_x_center" ELSE "apply_children_x_extents"

\* embed is entered: the root check and the empty table of
\* create_initial_embedding_data
embed_enter ==
    /\ pc = "embed"
    /\ IF multiple_roots(tree)
       THEN /\ pc' = "done"
            /\ result' = Err("Currently we support only one root")
            /\ UNCHANGED <<items, pos>>
       ELSE /\ items' = <<>>
            /\ result' = result
            /\ IF walk(tree) = <<>>
               THEN pc' = AfterPass1(tree) /\ pos' = IF AfterPass1(tree) = "apply_x_center" THEN 0 ELSE 1
               ELSE pc' = "create_initial_embedding_data" /\ pos' = 1
    /\ UNCHANGED <<tree, layouterVars>>

\* one iteration of the walk of create_initial_embedding_data
create_initial_embedding_data ==
    /\ pc = "create_initial_embedding_data"
    /\ pos <= Len(walk(tree))
    /\ items' = visit_node(tree, items, pos)
    /\ IF pos = Len(walk(tree))
       THEN /\ pc' = AfterPass1(tree)
            /\ pos' = IF AfterPass1(tree) = "apply_x_center" THEN 0 ELSE 1
       ELSE /\ pc' = pc
            /\ pos' = pos + 1
    /\ UNCHANGED <<tree, result, layouterVars>>

\* one event of the walk of apply_children_x_extents
apply_children_x_extents ==
    /\ pc = "apply_children_x_extents"
    /\ pos <= Len(walk_events(tree))
    /\ items' = on_event(tree, items, walk_events(tree)[pos])
    /\ IF pos = Len(walk_events(tree))
       THEN pc' = "apply_x_center" /\ pos' = 0
       ELSE pc' = pc /\ pos' = pos + 1
    /\ UNCHANGED <<tree, result, layouterVars>>

\* one layer of apply_x_center
apply_x_center ==
    /\ pc = "apply_x_center"
    /\ pos <= height(items)
    /\ LET r == x_center_layer(pos, items)
       IN IF r.kind = "Ok"
          THEN /\ items' = r.items
               /\ result' = result
               /\ IF pos = height(items)
                  THEN pc' = "transfer_result" /\ pos' = 0
                  ELSE pc' = pc /\ pos' = pos + 1
          ELSE /\ pc' = "done"
               /\ result' = IF r.kind = "Err" THEN Err(r.err) ELSE Panic(r.err)
               /\ items' = <<>>
               /\ pos' = 0
    /\ UNCHANGED <<tree, layouterVars>>

\* Ok(Self::transfer_result(items)): the table is consumed
embed_return ==
    /\ pc = "transfer_result"
    /\ result' = Ok(transfer_result(items))
    /\ items' = <<>>
    /\ pc' = "done"
    /\ pos' = 0
    /\ UNCHANGED <<tree, layouterVars>>

Next ==
    \/ embed_enter
    \/ create_initial_embedding_data
    \/ apply_children_x_extents
    \/ apply_x_center
    \/ embed_return

Spec == Init /\ [][Next]_vars

\* embed on the small trees, with more distinct labels
InitScenario ==
    /\ IsTree(tree, MaxScenarioNodes, MaxScenarioValue)
    /\ pc = "embed"
    /\ items = <<>>
    /\ pos = 0
    /\ result = NoResult
    /\ FreshLayouter

ScenarioSpec == InitScenario /\ [][Next]_vars

\* ------------------------------------------------------------ Layouter
Paths == {"test.svg", "out.svg"}
Drawers == {"NilDrawer"}

\* Layouter::new(&tree)
InitLayouter ==
    /\ IsTree(tree, MaxLayouterNodes, MaxValue)
    /\ pc = "layouter"
    /\ items = <<>>
    /\ pos = 0
    /\ result = NoResult
    /\ FreshLayouter

with_file_path(path) ==
    /\ alive
    /\ file_name' = Some(path)
    /\ UNCHANGED <<tree, embedderVars, drawer, embedding, alive, write_count,
                   draw_count, last_draw, write_result>>

with_drawer(d) ==
    /\ alive
    /\ drawer' = Some(d)
    /\ UNCHANGED <<tree, embedderVars, file_name, embedding, alive, write_count,
                   draw_count, last_draw, write_result>>

\* VisualizeEmbedder::embed(&self.tree)?: on an error the Layouter is dropped
embed_with_visualize ==
    /\ alive
    /\ result' = Embedder_embed(tree)
    /\ IF result'.kind = "Ok"
       THEN embedding' = result'.embedding /\ alive' = alive
       ELSE embedding' = embedding /\ alive' = FALSE
    /\ UNCHANGED <<tree, pc, items, pos, file_name, drawer, write_count,
                   draw_count, last_draw, write_result>>

\* faulty variant of the drawer selection: the supplied drawer is ignored
selected_drawer_default(d) == "SvgDrawer"

\* self.drawer.unwrap_or(&default_drawer)
selected_drawer(d) == IF d = None THEN "SvgDrawer" ELSE d[1]

\* Layouter::write; drawn is what Drawer::draw returns
write(drawn) ==
    /\ alive
    /\ write_count < MaxWrites
    /\ write_count' = write_count + 1
    /\ IF file_name = None
       THEN /\ write_result' = "Err: No output file name given"
            /\ UNCHANGED <<draw_count, last_draw>>
       ELSE /\ draw_count' = draw_count + 1
            /\ last_draw' = Some([ drawer |-> selected_drawer(drawer),
                                   file_name |-> file_name[1],
                                   embedding |-> embedding ])
            /\ write_result' = drawn
    /\ UNCHANGED <<tree, embedderVars, file_name, drawer, embedding, alive>>

NextLayouter ==
    \/ \E path \in Paths : with_file_path(path)
    \/ \E d \in Drawers : with_drawer(d)
    \/ embed_with_visualize
    \/ \E drawn \in {"Ok", "Err: draw"} : write(drawn)

LayouterSpec == InitLayouter /\ [][NextLayouter]_vars

\* ------------------------------------------------------------ properties
\* The properties speak about the tree itself, not about the operators of
\* the embedder.
TopLevel == { i \in 1..tree.len : tree.parent[i] = 0 }
ChildrenOf(n) == { i \in 1..tree.len : tree.parent[i] = n }
IsLeaf(n) == ChildrenOf(n) = {}

RECURSIVE DepthOf(_)
DepthOf(n) == IF tree.parent[n] = 0 THEN 0 ELSE 1 + DepthOf(tree.parent[n])

\* the working record of node n
Item(n) == CHOOSE e \in { items[k] : k \in 1..Len(items) } : e.node_id = n

Xec(n) == Item(n).x_extent_children

RECURSIVE SumXec(_)
SumXec(S) ==
    IF S = {} THEN 0
    ELSE LET x == CHOOSE y \in S : TRUE IN Xec(x) + SumXec(S \ {x})

ChildrenSum(n) == SumXec(ChildrenOf(n))
MaxOf(a, b) == IF a >= b THEN a ELSE b
SlotStart(n) == Item(n).x_center - Item(n).x_extent_children \div 2
SlotEnd(n) == SlotStart(n) + Item(n).x_extent_children
Abs(x) == IF x < 0 THEN -x ELSE x

Pass2Done == pc \in {"apply_x_center", "transfer_result"}
Pass3Done == pc = "transfer_result"
Nodes == 1..tree.len

\* C1: embed on a tree with two or more top-level children returns the
\* "multiple roots" error; no node is ever visited and no embedding, not
\* even a partial one, is returned.
C1_MultipleRootsFail ==
    Cardinality(TopLevel) > 1 =>
        /\ items = <<>>
        /\ pos = 0
        /\ pc \in {"embed", "done"}
        /\ pc = "done" => result = Err("Currently we support only one root")
        /\ result.embedding = <<>>

C1_Witness ==
    /\ Cardinality(TopLevel) = 2
    /\ pc = "done"
    /\ result.kind = "Err"

\* The tree of the concrete scenario: root "A" with the children "B", "CC"
IsScenarioTree ==
    /\ tree.len = 3
    /\ tree.parent[1] = 0 /\ tree.parent[2] = 1 /\ tree.parent[3] = 1
    /\ stringify(tree.value[1]) = "A"
    /\ stringify(tree.value[2]) = "B"
    /\ stringify(tree.value[3]) = "CC"

ScenarioWidths ==
    /\ Item(1).y_order = 0 /\ Item(2).y_order = 1 /\ Item(3).y_order = 1
    /\ Item(2).x_extent_children = 2
    /\ Item(3).x_extent_children = 3
    /\ Item(1).x_extent_children = 5
    /\ Item(1).x_center = 2

\* C2 as stated: the children's cursor starts at -2, x_center(B) = -1 and
\* x_center(CC) = 1.
C2_Original ==
    (IsScenarioTree /\ Pass3Done) =>
        /\ ScenarioWidths
        /\ Item(1).x_center - Item(1).x_extent_of_children \div 2 = -2
        /\ Item(2).x_center = -1
        /\ Item(3).x_center = 1

\* C2 (amended): for the root "A" with the children "B" and "CC", embed
\* yields y_order = 0,1,1, x_extent_children B=2, CC=3, A=5, root
\* x_center = 2; the children's cursor starts at 2 - 5/2 = 0,
\* x_center(B) = 1 and x_center(CC) = 3, and these are the values returned.
C2_Scenario ==
    IsScenarioTree =>
        /\ Pass3Done =>
              /\ ScenarioWidths
              /\ Item(1).x_center - Item(1).x_extent_of_children \div 2 = 0
              /\ Item(2).x_center = 1
              /\ Item(3).x_center = 3
        /\ pc = "done" =>
              /\ result.kind = "Ok"
              /\ Len(result.embedding) = 3
              /\ result.embedding[1].y_order = 0 /\ result.embedding[1].x_center = 2
              /\ result.embedding[2].y_order = 1 /\ result.embedding[2].x_center = 1
              /\ result.embedding[3].y_order = 1 /\ result.embedding[3].x_center = 3

C2_Witness == IsScenarioTree /\ pc = "done" /\ result.kind = "Ok"

\* C3: after pass 3, for two siblings a before b in source order,
\* x_center(a) + x_extent_children(a)/2 <= x_center(b) - x_extent_children(b)/2.
C3_SiblingsOrdered ==
    Pass3Done =>
        \A a, b \in Nodes :
            (a < b /\ tree.parent[a] = tree.parent[b]) =>
                Item(a).x_center + Item(a).x_extent_children \div 2
                    <= Item(b).x_center - Item(b).x_extent_children \div 2

C3_Witness ==
    /\ Pass3Done
    /\ \E a, b \in Nodes :
          /\ a < b /\ tree.parent[a] = tree.parent[b]
          /\ ~IsLeaf(a)
          /\ Item(a).x_extent_children > Item(a).x_extent

\* C4: after pass 3, the slots [cursor, cursor + x_extent_children) of two
\* distinct nodes of the same depth are disjoint, cousins included, and the
\* combined slot of a node's children lies inside the node's own slot.
C4_SlotsDisjoint ==
    Pass3Done =>
        /\ \A a, b \in Nodes :
              (a # b /\ DepthOf(a) = DepthOf(b)) =>
                  \/ SlotEnd(a) <= SlotStart(b)
                  \/ SlotEnd(b) <= SlotStart(a)
        /\ \A n \in Nodes : \A c \in ChildrenOf(n) :
              SlotStart(n) <= SlotStart(c) /\ SlotEnd(c) <= SlotEnd(n)

C4_Witness ==
    /\ Pass3Done
    /\ \E a, b \in Nodes :
          /\ a # b /\ DepthOf(a) = DepthOf(b) /\ tree.parent[a] # tree.parent[b]
          /\ Item(tree.parent[a]).x_extent > Item(tree.parent[a]).x_extent_of_children

\* C5: after pass 3, for every node with a parent,
\* |x_center(child) - x_center(parent)| <= x_extent_of_children(parent)/2.
C5_ChildWithinParentSpan ==
    Pass3Done =>
        \A c \in Nodes :
            tree.parent[c] # 0 =>
                Abs(Item(c).x_center - Item(tree.parent[c]).x_center)
                    <= Item(tree.parent[c]).x_extent_of_children \div 2

C5_Witness ==
    /\ Pass3Done
    /\ \E c \in Nodes :
          /\ tree.parent[c] # 0
          /\ Cardinality(ChildrenOf(tree.parent[c])) >= 2
          /\ Item(c).x_extent_children = 3
          /\ Item(c).x_center > Item(tree.parent[c]).x_center

\* C6: after pass 2, for every node x_extent_children = max(x_extent, sum of
\* the x_extent_children of its direct children), so x_extent_children >=
\* x_extent, and >= x_extent_of_children for internal nodes; when a parent
\* is handled in pass 2 the values of its children are already final.
FinalWidth(n) == Xec(n) = MaxOf(Item(n).x_extent, ChildrenSum(n))

C6_WidthsAggregated ==
    /\ Pass2Done =>
          \A n \in Nodes :
              /\ FinalWidth(n)
              /\ Item(n).x_extent_children >= Item(n).x_extent
              /\ ~IsLeaf(n) =>
                    Item(n).x_extent_children >= Item(n).x_extent_of_children
    /\ (pc = "apply_children_x_extents" /\ walk_events(tree)[pos][1] = "Up") =>
          \A c \in ChildrenOf(walk_events(tree)[pos][2]) : FinalWidth(c)

C6_Witness ==
    /\ Pass2Done
    /\ \E n, m \in Nodes :
          /\ ~IsLeaf(n) /\ Item(n).x_extent_children > Item(n).x_extent
          /\ ~IsLeaf(m) /\ Item(m).x_extent > Item(m).x_extent_of_children
          /\ tree.parent[m] = n

C8_EmptyTreeEmbeds ==
    tree.len = 0 =>
        /\ alive
        /\ result.kind \in {"none", "Ok"}
        /\ result.embedding = <<>>
        /\ embedding = <<>>
        /\ last_draw # None => last_draw[1].embedding = <<>>

C8_Witness ==
    /\ tree.len = 0
    /\ result.kind = "Ok"
    /\ draw_count > 0
    /\ write_result = "Ok"

\* C9 as stated: after pass 2, every node's x_extent_of_children is the sum
\* of x_extent_children over its direct children, 0 for every leaf.
C9_Original ==
    Pass2Done =>
        \A n \in Nodes : Item(n).x_extent_of_children = ChildrenSum(n)

\* C10: in pass 3 the parent of every node about to be placed has
\* x_center >= x_extent_of_children/2, the subtraction never underflows,
\* embed does not panic, and every cursor and every x_center is >= 0.
C10_NoUnderflow ==
    /\ result.kind # "panic"
    /\ \A k \in 1..Len(items) : items[k].x_center >= 0
    /\ \A k \in 1..Len(result.embedding) : result.embedding[k].x_center >= 0
    /\ pc = "apply_x_center" =>
          \A n \in Nodes :
              (DepthOf(n) = pos /\ tree.parent[n] # 0) =>
                  Item(tree.parent[n]).x_center
                      >= Item(tree.parent[n]).x_extent_of_children \div 2
    /\ Pass3Done => \A n \in Nodes : SlotStart(n) >= 0

C10_Witness ==
    /\ pc = "apply_x_center"
    /\ pos = 2
    /\ \E n \in Nodes :
          /\ DepthOf(n) = 2
          /\ Item(tree.parent[n]).x_extent > Item(tree.parent[n]).x_extent_of_children
          /\ Item(tree.parent[n]).x_center > 2

====
